---- MODULE Spec2Model ----
(***************************************************************************)
(* The WebSocket multiplexing core of superchain-client (src/src/ws.rs):   *)
(* the client facade (Client::raw_request), the background worker          *)
(* (BackGroundWorker::run, handle_msg, send_request, allocate_id), the     *)
(* frame codec (Header::try_from_data, MsgMarker) and the per-request      *)
(* unbounded channels that carry items to the callers' streams.            *)
(***************************************************************************)
EXTENDS Integers, Sequences, FiniteSets, TLC

(***************************************************************************)
(* Program constants.                                                      *)
(***************************************************************************)
NumSlots == 256
ChannelCapacity == 1024
HeaderSize == 6
START == 1
CONTINUE == 2
END == 4
ERROR == 128
SUBSCRIPTION == 64

(***************************************************************************)
(* Bounds of the model.  The scenarios share every action: "mux" (few      *)
(* requests, a talkative server), "load" (enough requests to fill and      *)
(* wrap the table; the server, the socket and the callers' streams stay    *)
(* quiet until all but LoadMargin of the slots have been requested),       *)
(* "live" (a short session, for the properties checked under fairness)     *)
(* "marks" (one frame of any marker, any of the three operations),         *)
(* "height" (one get_height call and the frames that answer it) and        *)
(* "proto" (two subscriptions and frames that carry items, malformed ones  *)
(* included).                                                              *)
(***************************************************************************)
MuxRequests == 2
MuxFrames == 3
LoadExtra == 2
LoadMargin == 2
LoadFrames == 1
LiveRequests == 2
LiveFrames == 2
MaxDrops == 1
MaxPending == 2
MaxWatched == 2
MarksRequests == 1
MarksFrames == 1
HeightRequests == 1
HeightFrames == 2
ProtoRequests == 2
ProtoFrames == 2

VARIABLES
    subscriptions,  \* BackGroundWorker.subscriptions: slot -> None or a channel's sender
    next_id,        \* BackGroundWorker.next_id
    operation_rx,   \* the operations queued in the bounded channel facade -> worker
    client,         \* TRUE while the Client handle (backend_tx) exists
    worker,         \* "running" | "done": the spawned run() task (its result is discarded)
    chans,          \* the per-request unbounded channels, by creation order
    last,           \* the step just taken: its event, inputs and outcome
    held,           \* ids handed out (frame sent) with no END frame processed since
    endedIds,       \* ids of occupied slots that an END frame has emptied
    sinceEnd,       \* ids allocate_id has returned since the last END frame was processed
    liveAtExit,     \* the channels that had a sender when run() returned
    used,           \* what the environment has done so far, against the bounds
    scenario,       \* "mux" | "load" | "live" | "marks" | "height" | "proto", fixed
    target_endian,  \* "little" | "big": the byte order of the build's target
    call,           \* the decoder under examination and its input
    ret             \* what the decoder returned

vars == <<subscriptions, next_id, operation_rx, client, worker, chans, last,
          held, endedIds, sinceEnd, liveAtExit, used, scenario,
          target_endian, call, ret>>

\* what no step of the client or the worker changes
fixed == <<scenario, target_endian, call, ret>>

Slots == 0 .. (NumSlots - 1)
None == 0

(***************************************************************************)
(* MsgMarker (bitflags) and Header::try_from_data.                         *)
(***************************************************************************)
Bits == {1, 2, 4, 8, 16, 32, 64, 128}
HasBit(b, f) == (b \div f) % 2 = 1

MsgMarkerAll == START + CONTINUE + END + ERROR + SUBSCRIPTION

\* from_bits that drops the bits that are no flag (from_bits_truncate)
from_bits_truncate(b) ==
    [some |-> TRUE,
     bits |-> b - (IF HasBit(b, 8) THEN 8 ELSE 0) - (IF HasBit(b, 16) THEN 16 ELSE 0)
                - (IF HasBit(b, 32) THEN 32 ELSE 0)]

\* MsgMarker::from_bits: Some(marker) iff no bit outside the defined flags is set
from_bits(b) ==
    IF \A f \in Bits : HasBit(b, f) => HasBit(MsgMarkerAll, f)
    THEN [some |-> TRUE, bits |-> b]
    ELSE [some |-> FALSE, bits |-> 0]

\* MsgMarker::contains
contains(marker, flag) == HasBit(marker, flag)

\* the four bytes read in little-endian order
from_le_bytes(b) == <<b[4] * 256 + b[3], b[2] * 256 + b[1]>>

\* u32::from_be_bytes; the u32 is kept as its two 16-bit halves, high first
from_be_bytes(b) == <<b[1] * 256 + b[2], b[3] * 256 + b[4]>>

\* try_from_data that leaves the header bytes in the payload
try_from_data_notruncate(data) ==
    LET data_len == Len(data) IN
    IF data_len < HeaderSize
    THEN [ok |-> FALSE, marker |-> 0, id |-> 0, counter |-> <<0, 0>>,
          data |-> <<>>]
    ELSE LET header == SubSeq(data, data_len - HeaderSize + 1, data_len)
             marker == from_bits(header[1])
         IN  IF ~marker.some
             THEN [ok |-> FALSE, marker |-> 0, id |-> 0, counter |-> <<0, 0>>,
          data |-> <<>>]
             ELSE [ok |-> TRUE, marker |-> marker.bits, id |-> header[2],
                   counter |-> from_be_bytes(SubSeq(header, 3, 6)),
                   data |-> data]

\* Header::try_from_data: the header is the last HeaderSize bytes
try_from_data(data) ==
    LET data_len == Len(data) IN
    IF data_len < HeaderSize
    THEN [ok |-> FALSE, marker |-> 0, id |-> 0, counter |-> <<0, 0>>,
          data |-> <<>>]
    ELSE LET header == SubSeq(data, data_len - HeaderSize + 1, data_len)
             marker == from_bits(header[1])
         IN  IF ~marker.some
             THEN [ok |-> FALSE, marker |-> 0, id |-> 0, counter |-> <<0, 0>>,
          data |-> <<>>]
             ELSE [ok |-> TRUE, marker |-> marker.bits, id |-> header[2],
                   counter |-> from_be_bytes(SubSeq(header, 3, 6)),
                   data |-> SubSeq(data, 1, data_len - HeaderSize)]

(***************************************************************************)
(* String::from_utf8 succeeds iff the bytes are well-formed UTF-8.         *)
(***************************************************************************)
IsCont(b) == b >= 128 /\ b <= 191

RECURSIVE from_utf8_ok(_)
from_utf8_ok(s) ==
    IF s = <<>> THEN TRUE
    ELSE LET b == s[1]
             n == Len(s)
         IN  IF b < 128 THEN from_utf8_ok(Tail(s))
             ELSE IF b >= 194 /\ b <= 223
                  THEN n >= 2 /\ IsCont(s[2]) /\ from_utf8_ok(SubSeq(s, 3, n))
             ELSE IF b >= 224 /\ b <= 239
                  THEN /\ n >= 3 /\ IsCont(s[2]) /\ IsCont(s[3])
                       /\ (b = 224 => s[2] >= 160)
                       /\ (b = 237 => s[2] <= 159)
                       /\ from_utf8_ok(SubSeq(s, 4, n))
             ELSE IF b >= 240 /\ b <= 244
                  THEN /\ n >= 4 /\ IsCont(s[2]) /\ IsCont(s[3]) /\ IsCont(s[4])
                       /\ (b = 240 => s[2] >= 144)
                       /\ (b = 244 => s[2] <= 143)
                       /\ from_utf8_ok(SubSeq(s, 5, n))
             ELSE FALSE

(***************************************************************************)
(* Items carried by a per-request channel (WsMsg = Result<Vec<u8>>).       *)
(***************************************************************************)
OkItem(data) == [kind |-> "Ok", data |-> data]
ErrItem(kind, data) == [kind |-> kind, data |-> data]
NoItem == [kind |-> "None", data |-> <<>>]

\* the item handle_msg builds from a frame whose marker has neither END nor START
FrameItem(marker, data) ==
    IF contains(marker, ERROR)
    THEN IF from_utf8_ok(data) THEN ErrItem("ErrorMsg", data)
         ELSE ErrItem("UnexpectedMessageFormat", <<>>)
    ELSE IF contains(marker, CONTINUE) THEN OkItem(data)
    ELSE ErrItem("UnexpectedMessageFormat", <<>>)

(***************************************************************************)
(* BackGroundWorker::allocate_id, as a function of the worker's fields.    *)
(***************************************************************************)
\* a scan from the end of the table: the highest index holding None
FindNone_last(subs) ==
    LET free == {k \in Slots : subs[k] = None} IN
    IF free = {} THEN -1
    ELSE CHOOSE k \in free : \A j \in free : k >= j

\* subscriptions.iter().enumerate().find(|(_, opt)| opt.is_none()):
\* the lowest index holding None, -1 when there is none
FindNone(subs) ==
    LET free == {k \in Slots : subs[k] = None} IN
    IF free = {} THEN -1
    ELSE CHOOSE k \in free : \A j \in free : k <= j

\* an addition that stops at 255 instead of wrapping
saturating_add(x, y) == IF x + y > 255 THEN 255 ELSE x + y

wrapping_add(x, y) == (x + y) % 256

\* allocate_id without the occupancy check: the hint is always returned
allocate_id_nocheck(subs, nid) ==
    [ok |-> TRUE, id |-> nid, subscriptions |-> subs,
     next_id |-> wrapping_add(nid, 1)]

\* allocate_id that, on a full table, evicts the subscription at the hint
allocate_id_evict(subs, nid) ==
    IF subs[nid] = None
    THEN [ok |-> TRUE, id |-> nid, subscriptions |-> subs,
          next_id |-> wrapping_add(nid, 1)]
    ELSE LET i == FindNone(subs) IN
         IF i < 0
         THEN [ok |-> TRUE, id |-> nid,
               subscriptions |-> [subs EXCEPT ![nid] = None],
               next_id |-> wrapping_add(nid, 1)]
         ELSE [ok |-> TRUE, id |-> i, subscriptions |-> subs,
               next_id |-> wrapping_add(nid, 1)]

allocate_id(subs, nid) ==
    IF subs[nid] = None
    THEN [ok |-> TRUE, id |-> nid, subscriptions |-> subs,
          next_id |-> wrapping_add(nid, 1)]
    ELSE LET i == FindNone(subs) IN
         IF i < 0
         THEN [ok |-> FALSE, id |-> -1, subscriptions |-> subs, next_id |-> nid]
         ELSE [ok |-> TRUE, id |-> i, subscriptions |-> subs,
               next_id |-> wrapping_add(nid, 1)]

(***************************************************************************)
(* The per-request channel (tokio mpsc::unbounded_channel) and the stream  *)
(* raw_request builds over its receiver.                                   *)
(***************************************************************************)
\* queue: the items sent and not yet received; rx: the receiver (the caller's
\* stream) exists; got: the items the stream has yielded; ended: the stream
\* has yielded None; seen: the frames carrying an item (marker, payload) that
\* the worker handled for the slot while it held this channel's sender;
\* one_shot: the stream is the one get_height reads its single item from
NewChan(operation) ==
    [queue |-> <<>>, rx |-> TRUE, got |-> <<>>, ended |-> FALSE, seen |-> <<>>,
     one_shot |-> operation = "getHeight"]

\* a send that puts the item at the front of the queue
Send_lifo(ch, c, item) ==
    IF c = None \/ ~ch[c].rx THEN ch
    ELSE [ch EXCEPT ![c].queue = <<item>> \o @]

\* UnboundedSender::send: queues the item unless the receiver is gone (the
\* error is discarded by handle_msg)
Send(ch, c, item) ==
    IF c = None \/ ~ch[c].rx THEN ch
    ELSE [ch EXCEPT ![c].queue = Append(@, item)]

\* the channels a sender of which exists: in a slot of the table or in a
\* queued operation
Senders(subs, ops) ==
    ({subs[k] : k \in Slots} \ {None}) \cup {ops[i].sender : i \in DOMAIN ops}

HasSender(subs, ops, c) == c \in Senders(subs, ops)

(***************************************************************************)
(* BackGroundWorker::handle_msg on a Binary message: the result, the table *)
(* afterwards, and the item pushed (into channel `to`), if any.            *)
(***************************************************************************)
\* handle_msg that accepts a frame for an empty slot and pushes nothing
handle_binary_lenient(subs, data) ==
    LET h == try_from_data(data) IN
    IF ~h.ok
    THEN [res |-> "UnexpectedMessageFormat", subscriptions |-> subs,
          to |-> None, item |-> NoItem]
    ELSE IF contains(h.marker, END)
    THEN [res |-> "Ok", subscriptions |-> [subs EXCEPT ![h.id] = None],
          to |-> None, item |-> NoItem]
    ELSE IF contains(h.marker, START) \/ subs[h.id] = None
    THEN [res |-> "Ok", subscriptions |-> subs, to |-> None, item |-> NoItem]
    ELSE [res |-> "Ok", subscriptions |-> subs,
          to |-> subs[h.id], item |-> FrameItem(h.marker, h.data)]

\* handle_msg whose END frame drops every sink of the table
handle_binary_end_clears_all(subs, data) ==
    LET h == try_from_data(data) IN
    IF ~h.ok
    THEN [res |-> "UnexpectedMessageFormat", subscriptions |-> subs,
          to |-> None, item |-> NoItem]
    ELSE IF contains(h.marker, END)
    THEN [res |-> "Ok", subscriptions |-> [k \in Slots |-> None],
          to |-> None, item |-> NoItem]
    ELSE IF contains(h.marker, START)
    THEN [res |-> "Ok", subscriptions |-> subs, to |-> None, item |-> NoItem]
    ELSE IF subs[h.id] = None
    THEN [res |-> "UnknownResponseId", subscriptions |-> subs,
          to |-> None, item |-> NoItem]
    ELSE [res |-> "Ok", subscriptions |-> subs,
          to |-> subs[h.id], item |-> FrameItem(h.marker, h.data)]

\* handle_msg that frees the slot when the push into its sink fails
handle_binary_failed_push_frees(subs, data) ==
    LET h == try_from_data(data) IN
    IF ~h.ok
    THEN [res |-> "UnexpectedMessageFormat", subscriptions |-> subs,
          to |-> None, item |-> NoItem]
    ELSE IF contains(h.marker, END)
    THEN [res |-> "Ok", subscriptions |-> [subs EXCEPT ![h.id] = None],
          to |-> None, item |-> NoItem]
    ELSE IF contains(h.marker, START)
    THEN [res |-> "Ok", subscriptions |-> subs, to |-> None, item |-> NoItem]
    ELSE IF subs[h.id] = None
    THEN [res |-> "UnknownResponseId", subscriptions |-> subs,
          to |-> None, item |-> NoItem]
    ELSE [res |-> "Ok",
          subscriptions |-> IF chans[subs[h.id]].rx THEN subs
                            ELSE [subs EXCEPT ![h.id] = None],
          to |-> subs[h.id], item |-> FrameItem(h.marker, h.data)]

\* handle_msg that looks the slot up before it tests the marker
handle_binary_lookup_first(subs, data) ==
    LET h == try_from_data(data) IN
    IF ~h.ok
    THEN [res |-> "UnexpectedMessageFormat", subscriptions |-> subs,
          to |-> None, item |-> NoItem]
    ELSE IF subs[h.id] = None
    THEN [res |-> "UnknownResponseId", subscriptions |-> subs,
          to |-> None, item |-> NoItem]
    ELSE IF contains(h.marker, END)
    THEN [res |-> "Ok", subscriptions |-> [subs EXCEPT ![h.id] = None],
          to |-> None, item |-> NoItem]
    ELSE IF contains(h.marker, START)
    THEN [res |-> "Ok", subscriptions |-> subs, to |-> None, item |-> NoItem]
    ELSE [res |-> "Ok", subscriptions |-> subs,
          to |-> subs[h.id], item |-> FrameItem(h.marker, h.data)]

\* handle_msg that returns the protocol error instead of pushing it
handle_binary_strict(subs, data) ==
    LET h == try_from_data(data) IN
    IF ~h.ok
    THEN [res |-> "UnexpectedMessageFormat", subscriptions |-> subs,
          to |-> None, item |-> NoItem]
    ELSE IF contains(h.marker, END)
    THEN [res |-> "Ok", subscriptions |-> [subs EXCEPT ![h.id] = None],
          to |-> None, item |-> NoItem]
    ELSE IF contains(h.marker, START)
    THEN [res |-> "Ok", subscriptions |-> subs, to |-> None, item |-> NoItem]
    ELSE IF FrameItem(h.marker, h.data).kind = "UnexpectedMessageFormat"
    THEN [res |-> "UnexpectedMessageFormat", subscriptions |-> subs,
          to |-> None, item |-> NoItem]
    ELSE IF subs[h.id] = None
    THEN [res |-> "UnknownResponseId", subscriptions |-> subs,
          to |-> None, item |-> NoItem]
    ELSE [res |-> "Ok", subscriptions |-> subs,
          to |-> subs[h.id], item |-> FrameItem(h.marker, h.data)]

\* handle_msg that tests START before END
handle_binary_start_first(subs, data) ==
    LET h == try_from_data(data) IN
    IF ~h.ok
    THEN [res |-> "UnexpectedMessageFormat", subscriptions |-> subs,
          to |-> None, item |-> NoItem]
    ELSE IF contains(h.marker, START)
    THEN [res |-> "Ok", subscriptions |-> subs, to |-> None, item |-> NoItem]
    ELSE IF contains(h.marker, END)
    THEN [res |-> "Ok", subscriptions |-> [subs EXCEPT ![h.id] = None],
          to |-> None, item |-> NoItem]
    ELSE IF subs[h.id] = None
    THEN [res |-> "UnknownResponseId", subscriptions |-> subs,
          to |-> None, item |-> NoItem]
    ELSE [res |-> "Ok", subscriptions |-> subs,
          to |-> subs[h.id], item |-> FrameItem(h.marker, h.data)]

handle_binary(subs, data) ==
    LET h == try_from_data(data) IN
    IF ~h.ok
    THEN [res |-> "UnexpectedMessageFormat", subscriptions |-> subs,
          to |-> None, item |-> NoItem]
    ELSE IF contains(h.marker, END)
    THEN [res |-> "Ok", subscriptions |-> [subs EXCEPT ![h.id] = None],
          to |-> None, item |-> NoItem]
    ELSE IF contains(h.marker, START)
    THEN [res |-> "Ok", subscriptions |-> subs, to |-> None, item |-> NoItem]
    ELSE IF subs[h.id] = None
    THEN [res |-> "UnknownResponseId", subscriptions |-> subs,
          to |-> None, item |-> NoItem]
    ELSE [res |-> "Ok", subscriptions |-> subs,
          to |-> subs[h.id], item |-> FrameItem(h.marker, h.data)]

(***************************************************************************)
(* BackGroundWorker::send_request: the result, the table and next_id       *)
(* afterwards, and what was written to the socket.  `sent` is whether the  *)
(* socket accepts the frame.                                               *)
(***************************************************************************)
WsBinary(id, operation) ==
    [type |-> "Binary", id |-> id, operation |-> operation, data |-> <<>>]
WsPing(data) == [type |-> "Ping", id |-> -1, operation |-> "", data |-> data]
\* a Pong that drops the payload of the Ping it answers
WsPong_empty(data) ==
    [type |-> "Pong", id |-> -1, operation |-> "", data |-> <<>>]
WsPong(data) == [type |-> "Pong", id |-> -1, operation |-> "", data |-> data]

\* send_request that writes the frame but never installs the sender
send_request_noinstall(subs, nid, operation, sender, sent) ==
    LET a == allocate_id(subs, nid) IN
    IF ~a.ok
    THEN [res |-> "MaxConcurrentRequestLimitReached", id |-> -1,
          subscriptions |-> a.subscriptions, next_id |-> a.next_id,
          wrote |-> <<>>, at_write |-> a.subscriptions]
    ELSE [res |-> IF sent THEN "Ok" ELSE "Tungstenite", id |-> a.id,
          subscriptions |-> a.subscriptions, next_id |-> a.next_id,
          wrote |-> IF sent THEN <<WsBinary(a.id, operation)>> ELSE <<>>,
          at_write |-> a.subscriptions]

\* send_request that writes the frame first and installs the sender after
send_request_write_first(subs, nid, operation, sender, sent) ==
    LET a == allocate_id(subs, nid) IN
    IF ~a.ok
    THEN [res |-> "MaxConcurrentRequestLimitReached", id |-> -1,
          subscriptions |-> a.subscriptions, next_id |-> a.next_id,
          wrote |-> <<>>, at_write |-> a.subscriptions]
    ELSE IF sent
    THEN [res |-> "Ok", id |-> a.id,
          subscriptions |-> [a.subscriptions EXCEPT ![a.id] = sender],
          next_id |-> a.next_id, wrote |-> <<WsBinary(a.id, operation)>>,
          at_write |-> a.subscriptions]
    ELSE [res |-> "Tungstenite", id |-> a.id,
          subscriptions |-> a.subscriptions,
          next_id |-> a.next_id, wrote |-> <<>>,
          at_write |-> a.subscriptions]

\* send_request that leaves the sender installed when the write fails
send_request_keeps_slot(subs, nid, operation, sender, sent) ==
    LET a == allocate_id(subs, nid)
        installed == [a.subscriptions EXCEPT ![a.id] = sender]
    IN
    IF ~a.ok
    THEN [res |-> "MaxConcurrentRequestLimitReached", id |-> -1,
          subscriptions |-> a.subscriptions, next_id |-> a.next_id,
          wrote |-> <<>>, at_write |-> a.subscriptions]
    ELSE [res |-> IF sent THEN "Ok" ELSE "Tungstenite", id |-> a.id,
          subscriptions |-> installed, next_id |-> a.next_id,
          wrote |-> IF sent THEN <<WsBinary(a.id, operation)>> ELSE <<>>,
          at_write |-> installed]

\* at_write is the table at the moment send_msg is called with the frame
send_request(subs, nid, operation, sender, sent) ==
    LET a == allocate_id(subs, nid)
        installed == IF a.ok THEN [a.subscriptions EXCEPT ![a.id] = sender]
                     ELSE a.subscriptions
    IN
    IF ~a.ok
    THEN [res |-> "MaxConcurrentRequestLimitReached", id |-> -1,
          subscriptions |-> a.subscriptions, next_id |-> a.next_id,
          wrote |-> <<>>, at_write |-> a.subscriptions]
    ELSE IF sent
    THEN [res |-> "Ok", id |-> a.id,
          subscriptions |-> installed,
          next_id |-> a.next_id, wrote |-> <<WsBinary(a.id, operation)>>,
          at_write |-> installed]
    ELSE [res |-> "Tungstenite", id |-> a.id,
          subscriptions |-> [installed EXCEPT ![a.id] = None],
          next_id |-> a.next_id, wrote |-> <<>>,
          at_write |-> installed]

(***************************************************************************)
(* The environment: what the callers and the server may do.                *)
(***************************************************************************)
Operations == {"getPairs", "getPrices", "getHeight"}
\* the operations each scenario's callers request
OperationsOf(sc) ==
    IF sc = "mux" THEN {"getPairs", "getPrices"}
    ELSE IF sc = "marks" THEN Operations
    ELSE IF sc = "height" THEN {"getHeight"} ELSE {"getPrices"}

MaxRequestsOf(sc) ==
    IF sc = "load" THEN NumSlots + LoadExtra
    ELSE IF sc = "live" THEN LiveRequests
    ELSE IF sc = "marks" THEN MarksRequests
    ELSE IF sc = "height" THEN HeightRequests
    ELSE IF sc = "proto" THEN ProtoRequests ELSE MuxRequests
MaxFramesOf(sc) ==
    IF sc = "load" THEN LoadFrames
    ELSE IF sc = "live" THEN LiveFrames
    ELSE IF sc = "marks" THEN MarksFrames
    ELSE IF sc = "height" THEN HeightFrames
    ELSE IF sc = "proto" THEN ProtoFrames ELSE MuxFrames

Payloads == {<<104>>, <<255>>}
Counter == <<0, 0, 0, 1>>
Frame(marker, id, payload) == payload \o <<marker, id>> \o Counter

MuxMarkers == {START, CONTINUE, END, ERROR}
MuxIds == {0, 1}
LoadIds == {0, 1}

\* the well-formed frames (marker, id, payload) the server may send
MuxTriples ==
    {<<CONTINUE, i, p>> : i \in MuxIds, p \in Payloads}
        \cup {<<m, i, <<104>> >> : m \in MuxMarkers \ {CONTINUE}, i \in MuxIds}
LoadTriples == {<<m, i, <<>> >> : m \in {END, CONTINUE}, i \in LoadIds}
LiveTriples == {<<m, i, <<104>> >> : m \in {CONTINUE, END}, i \in MuxIds}
\* every marker made of defined bits
ValidMarkers == {b \in 0 .. 255 : from_bits(b).some}
MarksPayloads == {<<>>, <<104>>, <<255>>}
MarksIds == {0, 1}
MarksTriples ==
    {<<m, i, p>> : m \in ValidMarkers, i \in MarksIds, p \in MarksPayloads}
\* a height of 8 bytes, and payloads that are not 8 bytes long
HeightBytes == <<42, 1, 2, 3, 4, 5, 6, 7>>
HeightPayloads == {<<>>, <<104>>, HeightBytes, HeightBytes \o <<0>>}
HeightTriples ==
    {<<CONTINUE, 0, p>> : p \in HeightPayloads}
        \cup {<<ERROR, 0, <<104>> >>, <<END, 0, <<>> >>}
\* frames that carry an item: markers without END and START; the payloads
\* of the ERROR frames are UTF-8 (h) or not (0xFF, a cut two-byte sequence)
ProtoMarked ==
    {<<0, <<104>> >>, <<SUBSCRIPTION, <<104>> >>, <<CONTINUE, <<104>> >>,
     <<ERROR, <<104>> >>, <<ERROR, <<255>> >>, <<ERROR + CONTINUE, <<195>> >>}
ProtoTriples == {<<mp[1], i, mp[2]>> : mp \in ProtoMarked, i \in MuxIds}
TriplesOf(sc) ==
    IF sc = "load" THEN LoadTriples
    ELSE IF sc = "live" THEN LiveTriples
    ELSE IF sc = "marks" THEN MarksTriples
    ELSE IF sc = "height" THEN HeightTriples
    ELSE IF sc = "proto" THEN ProtoTriples ELSE MuxTriples

\* the Binary messages the server may send: the frames above and a message
\* shorter than a header
ShortMessage == <<START, 0, 0, 0, 0>>
MuxInbound == {Frame(t[1], t[2], t[3]) : t \in MuxTriples} \cup {ShortMessage}
LoadInbound == {Frame(t[1], t[2], t[3]) : t \in LoadTriples} \cup {ShortMessage}
LiveInbound == {Frame(t[1], t[2], t[3]) : t \in LiveTriples} \cup {ShortMessage}
\* a message whose marker byte has a bit that is no flag
BadMarkerMessage == <<104, 8, 0>> \o Counter
\* the bits of the marker byte that are no flag of MsgMarker
UndefinedBits == Bits \ {START, CONTINUE, END, ERROR, SUBSCRIPTION}
\* marker bytes with undefined bits: every combination of them, alone and on
\* top of each flag and of all flags
BadMarkers ==
    {u + m : u \in {8, 16, 32, 8 + 16, 8 + 32, 16 + 32, 8 + 16 + 32},
             m \in {0, START, CONTINUE, END, ERROR, SUBSCRIPTION, MsgMarkerAll}}
\* messages of fewer than HeaderSize bytes, the flags among their bytes
ShortMessages ==
    {<<>>, <<CONTINUE>>, <<CONTINUE, 0>>, <<104, CONTINUE, 0>>,
     <<CONTINUE, 0, 0, 0>>, <<CONTINUE, 0, 0, 0, 0>>, <<END, 1, 0, 0, 1>>,
     ShortMessage}
\* the messages try_from_data rejects
MalformedMessages ==
    ShortMessages \cup {BadMarkerMessage}
        \cup {Frame(b, i, <<104>>) : b \in BadMarkers, i \in MarksIds}
MarksInbound ==
    {Frame(t[1], t[2], t[3]) : t \in MarksTriples} \cup MalformedMessages
HeightInbound == {Frame(t[1], t[2], t[3]) : t \in HeightTriples}
ProtoInbound == {Frame(t[1], t[2], t[3]) : t \in ProtoTriples}
InboundOf(sc) ==
    IF sc = "load" THEN LoadInbound
    ELSE IF sc = "live" THEN LiveInbound
    ELSE IF sc = "marks" THEN MarksInbound
    ELSE IF sc = "height" THEN HeightInbound
    ELSE IF sc = "proto" THEN ProtoInbound ELSE MuxInbound

\* whether the server, the socket and the callers other than requesters act
Awake == scenario = "load" => used.requests >= NumSlots - LoadMargin

Min(a, b) == IF a < b THEN a ELSE b
Watched == 1 .. Min(Len(chans), MaxWatched)

\* the record kept of a step: the event, the slot id and marker of the frame
\* (or the id allocated), the channel concerned, the result, the item pushed
\* or yielded, and the messages written to the socket
Ev(ev, id, chan, res, item, wrote) ==
    [ev |-> ev, id |-> id, marker |-> -1, chan |-> chan, res |-> res,
     item |-> item, wrote |-> wrote, value |-> <<>>]

(***************************************************************************)
(* Initial state: Client::new has built the channel and spawned the worker *)
(* (BackGroundWorker::new: 256 empty slots, next_id = 0).                  *)
(***************************************************************************)
NoUse == [requests |-> 0, frames |-> 0, drops |-> 0]
\* no decoder is under examination
NoCall == [fn |-> "none", arg |-> <<>>]

InitClient(sc) ==
    /\ subscriptions = [k \in Slots |-> None]
    /\ next_id = 0
    /\ operation_rx = <<>>
    /\ client = TRUE
    /\ worker = "running"
    /\ chans = <<>>
    /\ last = Ev("new", -1, None, "Ok", NoItem, <<>>)
    /\ held = {}
    /\ endedIds = {}
    /\ sinceEnd = {}
    /\ liveAtExit = {}
    /\ used = NoUse
    /\ scenario = sc
    /\ target_endian \in (IF sc \in {"marks", "height"}
                          THEN {"little", "big"} ELSE {"little"})

InitOf(sc) ==
    /\ InitClient(sc)
    /\ call = NoCall
    /\ ret = NoCall

Init == InitOf("mux")
InitLoad == InitOf("load")
InitLive == InitOf("live")
InitMarks == InitOf("marks")
InitHeight == InitOf("height")
InitProto == InitOf("proto")

Running == worker = "running"

\* a worker whose table outlives run()
kept_subscriptions(subs) == subs

\* run() returns: `self` is dropped, and with it every sender in the table
dropped_subscriptions(subs) == [k \in Slots |-> None]

\* a return of run() after which the operation channel still holds what was
\* queued in it
Exit_keeps_queue(res, subs) ==
    /\ worker' = "done"
    /\ liveAtExit' = Senders(subs, operation_rx)
    /\ subscriptions' = dropped_subscriptions(subs)
    /\ operation_rx' = operation_rx

\* run() returns res: the worker, its table and its operation receiver (with
\* the operations still queued in it) are dropped
Exit(res, subs) ==
    /\ worker' = "done"
    /\ liveAtExit' = Senders(subs, operation_rx)
    /\ subscriptions' = dropped_subscriptions(subs)
    /\ operation_rx' = <<>>

(***************************************************************************)
(* Client::raw_request, as called by get_pairs_created, get_prices and     *)
(* get_height.                                                             *)
(***************************************************************************)
\* raw_request that queues the operation whether or not the worker is there
Request_ignores_shutdown(operation) ==
    /\ client
    /\ used.requests < MaxRequestsOf(scenario)
    /\ used' = [used EXCEPT !.requests = @ + 1]
    /\ Len(operation_rx) < Min(ChannelCapacity, MaxPending)
    /\ chans' = Append(chans, NewChan(operation))
    /\ operation_rx' = Append(operation_rx,
           [operation |-> operation, sender |-> Len(chans) + 1])
    /\ last' = Ev("request", -1, Len(chans) + 1, "Ok", NoItem, <<>>)
    /\ UNCHANGED <<subscriptions, next_id, client, worker, liveAtExit, held,
                   endedIds, fixed, sinceEnd>>

Request(operation) ==
    /\ client
    /\ IF Running
       THEN /\ used.requests < MaxRequestsOf(scenario)
            /\ used' = [used EXCEPT !.requests = @ + 1]
            /\ Len(operation_rx) < Min(ChannelCapacity, MaxPending)
            /\ chans' = Append(chans, NewChan(operation))
            /\ operation_rx' = Append(operation_rx,
                   [operation |-> operation, sender |-> Len(chans) + 1])
            /\ last' = Ev("request", -1, Len(chans) + 1, "Ok", NoItem, <<>>)
       ELSE /\ last' = Ev("request", -1, None, "BackendShutDown", NoItem, <<>>)
            /\ UNCHANGED <<chans, operation_rx, used>>
    /\ UNCHANGED <<subscriptions, next_id, client, worker, liveAtExit, held,
                   endedIds, fixed, sinceEnd>>

\* the Client is dropped: the operation channel has no sender left
DropClient ==
    /\ client
    /\ Awake
    /\ client' = FALSE
    /\ last' = Ev("drop_client", -1, None, "Ok", NoItem, <<>>)
    /\ UNCHANGED <<subscriptions, next_id, operation_rx, worker, liveAtExit,
                   chans, held, endedIds, used, fixed, sinceEnd>>

(***************************************************************************)
(* Client::get_height after raw_request has returned the stream: what it   *)
(* returns given the first thing the stream yields (an item, or NoItem for *)
(* end-of-stream).  The u64 is kept as its four 16-bit parts, high first.  *)
(***************************************************************************)
\* u64::from_ne_bytes on a target of the given byte order
from_ne_bytes(b, endian) ==
    IF endian = "little"
    THEN <<b[8] * 256 + b[7], b[6] * 256 + b[5],
           b[4] * 256 + b[3], b[2] * 256 + b[1]>>
    ELSE <<b[1] * 256 + b[2], b[3] * 256 + b[4],
           b[5] * 256 + b[6], b[7] * 256 + b[8]>>

\* get_height that accepts a payload of any length of at least 8 bytes
get_height_lax(first, endian) ==
    IF first.kind = "None"
    THEN [res |-> "Custom(empty response from websocket)", value |-> <<>>]
    ELSE IF first.kind # "Ok"
    THEN [res |-> "Err(io::Error)", value |-> <<>>]
    ELSE IF Len(first.data) < 8
    THEN [res |-> "Custom(failed to collect bytes for height bytes)",
          value |-> <<>>]
    ELSE [res |-> "Ok", value |-> from_ne_bytes(first.data, endian)]

get_height(first, endian) ==
    IF first.kind = "None"
    THEN [res |-> "Custom(empty response from websocket)", value |-> <<>>]
    ELSE IF first.kind # "Ok"
    THEN [res |-> "Err(io::Error)", value |-> <<>>]
    ELSE IF Len(first.data) # 8
    THEN [res |-> "Custom(failed to collect bytes for height bytes)",
          value |-> <<>>]
    ELSE [res |-> "Ok", value |-> from_ne_bytes(first.data, endian)]

(***************************************************************************)
(* The stream of raw_request (futures::stream::unfold over rx.recv()): one *)
(* call of next().  get_height calls it once on its stream, returns, and   *)
(* the stream is dropped with whatever is still queued.                    *)
(***************************************************************************)
StreamNext(c) ==
    /\ c \in Watched
    /\ Awake
    /\ chans[c].rx /\ ~chans[c].ended
    /\ IF chans[c].queue # <<>>
       THEN IF chans[c].one_shot
            THEN LET r == get_height(chans[c].queue[1], target_endian) IN
                 /\ chans' = [chans EXCEPT
                                 ![c].queue = <<>>,
                                 ![c].got = Append(@, chans[c].queue[1]),
                                 ![c].rx = FALSE]
                 /\ last' = [Ev("get_height", -1, c, r.res,
                                chans[c].queue[1], <<>>)
                                EXCEPT !.value = r.value]
            ELSE /\ chans' = [chans EXCEPT
                                 ![c].queue = Tail(@),
                                 ![c].got = Append(@, chans[c].queue[1])]
                 /\ last' = Ev("next", -1, c, "Some", chans[c].queue[1], <<>>)
       ELSE /\ ~HasSender(subscriptions, operation_rx, c)
            /\ IF chans[c].one_shot
               THEN LET r == get_height(NoItem, target_endian) IN
                    /\ chans' = [chans EXCEPT ![c].ended = TRUE,
                                              ![c].rx = FALSE]
                    /\ last' = [Ev("get_height", -1, c, r.res, NoItem, <<>>)
                                   EXCEPT !.value = r.value]
               ELSE /\ chans' = [chans EXCEPT ![c].ended = TRUE]
                    /\ last' = Ev("next", -1, c, "None", NoItem, <<>>)
    /\ UNCHANGED <<subscriptions, next_id, operation_rx, client, worker,
                   liveAtExit, held, endedIds, used, fixed, sinceEnd>>

\* the caller drops the stream, and with it the receiver and what it holds
DropStream(c) ==
    /\ c \in Watched
    /\ Awake
    /\ chans[c].rx
    /\ used.drops < MaxDrops
    /\ used' = [used EXCEPT !.drops = @ + 1]
    /\ chans' = [chans EXCEPT ![c].rx = FALSE, ![c].queue = <<>>]
    /\ last' = Ev("drop_stream", -1, c, "Ok", NoItem, <<>>)
    /\ UNCHANGED <<subscriptions, next_id, operation_rx, client, worker,
                   liveAtExit, held, endedIds, fixed, sinceEnd>>

(***************************************************************************)
(* BackGroundWorker::run: one iteration of the loop per action.            *)
(***************************************************************************)
\* Either::Left(Some(Ok(Message::Binary(data))))
RecvBinary(data) ==
    /\ Running
    /\ Awake
    /\ used.frames < MaxFramesOf(scenario)
    /\ used' = [used EXCEPT !.frames = @ + 1]
    /\ LET h == try_from_data(data)
           r == handle_binary(subscriptions, data)
           isEnd == h.ok /\ contains(h.marker, END)
           c == IF h.ok THEN subscriptions[h.id] ELSE None
           carries == /\ h.ok /\ c # None
                      /\ ~contains(h.marker, END) /\ ~contains(h.marker, START)
           noted == IF carries
                    THEN [chans EXCEPT ![c].seen = Append(@, <<h.marker, h.data>>)]
                    ELSE chans
       IN  /\ IF r.res = "Ok"
              THEN /\ subscriptions' = r.subscriptions
                   /\ chans' = Send(noted, r.to, r.item)
                   /\ UNCHANGED <<worker, liveAtExit, operation_rx>>
              ELSE /\ Exit(r.res, r.subscriptions)
                   /\ chans' = noted
           /\ held' = IF isEnd THEN held \ {h.id} ELSE held
           /\ sinceEnd' = IF isEnd THEN {} ELSE sinceEnd
           /\ endedIds' = IF isEnd /\ subscriptions[h.id] # None
                          THEN endedIds \cup {h.id} ELSE endedIds
           /\ last' = [Ev("binary", IF h.ok THEN h.id ELSE -1, r.to, r.res,
                          r.item, <<>>)
                          EXCEPT !.marker = IF h.ok THEN h.marker ELSE -1]
    /\ UNCHANGED <<next_id, client, fixed>>

\* Either::Left(Some(Ok(Message::Ping(data)))): answered with a Pong; `sent`
\* is whether the socket accepts it
RecvPing(data, sent) ==
    /\ Running
    /\ Awake
    /\ IF sent
       THEN /\ last' = Ev("ping", -1, None, "Ok", NoItem, <<WsPong(data)>>)
            /\ UNCHANGED <<worker, liveAtExit, subscriptions, operation_rx>>
       ELSE /\ last' = Ev("ping", -1, None, "Tungstenite", NoItem, <<>>)
            /\ Exit("Tungstenite", subscriptions)
    /\ UNCHANGED <<next_id, client, chans, held, endedIds, used, fixed,
                   sinceEnd>>

\* Either::Left(Some(Ok(Message::Pong(_))))
RecvPong ==
    /\ Running
    /\ Awake
    /\ last' = Ev("pong", -1, None, "Ok", NoItem, <<>>)
    /\ UNCHANGED <<subscriptions, next_id, operation_rx, client, worker,
                   liveAtExit, chans, held, endedIds, used, fixed,
                   sinceEnd>>

\* Either::Left(Some(Ok(Message::Close(_))))
RecvClose ==
    /\ Running
    /\ Awake
    /\ last' = Ev("close", -1, None, "ConnectionClosed", NoItem, <<>>)
    /\ Exit("ConnectionClosed", subscriptions)
    /\ UNCHANGED <<next_id, client, chans, held, endedIds, used, fixed,
                   sinceEnd>>

\* Either::Left(Some(Ok(_))): a Text message or a raw frame
RecvOther ==
    /\ Running
    /\ Awake
    /\ last' = Ev("other", -1, None, "UnexpectedMessage", NoItem, <<>>)
    /\ Exit("UnexpectedMessage", subscriptions)
    /\ UNCHANGED <<next_id, client, chans, held, endedIds, used, fixed,
                   sinceEnd>>

\* Either::Left(Some(Err(_))): the socket reports an error
RecvError ==
    /\ Running
    /\ Awake
    /\ last' = Ev("ws_error", -1, None, "Tungstenite", NoItem, <<>>)
    /\ Exit("Tungstenite", subscriptions)
    /\ UNCHANGED <<next_id, client, chans, held, endedIds, used, fixed,
                   sinceEnd>>

\* Either::Left(None): the inbound stream has ended
RecvNone ==
    /\ Running
    /\ Awake
    /\ last' = Ev("ws_none", -1, None, "Ok", NoItem, <<>>)
    /\ Exit("Ok", subscriptions)
    /\ UNCHANGED <<next_id, client, chans, held, endedIds, used, fixed,
                   sinceEnd>>

\* a loop that drops a request that failed and goes on
Operation_continues(sent) ==
    /\ Running
    /\ sent \/ Awake
    /\ operation_rx # <<>>
    /\ LET op == Head(operation_rx)
           r == send_request(subscriptions, next_id, op.operation, op.sender, sent)
       IN  /\ next_id' = r.next_id
           /\ subscriptions' = r.subscriptions
           /\ operation_rx' = Tail(operation_rx)
           /\ held' = IF r.res = "Ok" THEN held \cup {r.id} ELSE held
           /\ UNCHANGED <<worker, liveAtExit>>
           /\ sinceEnd' = IF r.id # -1 THEN sinceEnd \cup {r.id} ELSE sinceEnd
           /\ last' = Ev("send_request", r.id, op.sender, r.res, NoItem, r.wrote)
    /\ UNCHANGED <<client, chans, endedIds, used, fixed>>

\* Either::Right(Some((operation, sender)))
Operation(sent) ==
    /\ Running
    /\ sent \/ Awake
    /\ operation_rx # <<>>
    /\ LET op == Head(operation_rx)
           r == send_request(subscriptions, next_id, op.operation, op.sender, sent)
       IN  /\ next_id' = r.next_id
           /\ IF r.res = "Ok"
              THEN /\ subscriptions' = r.subscriptions
                   /\ operation_rx' = Tail(operation_rx)
                   /\ held' = held \cup {r.id}
                   /\ UNCHANGED <<worker, liveAtExit>>
              ELSE /\ Exit(r.res, r.subscriptions)
                   /\ UNCHANGED held
           /\ sinceEnd' = IF r.id # -1 THEN sinceEnd \cup {r.id} ELSE sinceEnd
           /\ last' = Ev("send_request", r.id, op.sender, r.res, NoItem, r.wrote)
    /\ UNCHANGED <<client, chans, endedIds, used, fixed>>

\* a worker that leaves as soon as the Client is gone
OperationNone_early ==
    /\ Running
    /\ Awake
    /\ ~client
    /\ last' = Ev("op_none", -1, None, "Ok", NoItem, <<>>)
    /\ Exit("Ok", subscriptions)
    /\ UNCHANGED <<next_id, client, chans, held, endedIds, used, fixed,
                   sinceEnd>>

\* Either::Right(None): the Client is gone and the channel is drained
OperationNone ==
    /\ Running
    /\ Awake
    /\ ~client /\ operation_rx = <<>>
    /\ last' = Ev("op_none", -1, None, "Ok", NoItem, <<>>)
    /\ Exit("Ok", subscriptions)
    /\ UNCHANGED <<next_id, client, chans, held, endedIds, used, fixed,
                   sinceEnd>>

\* a keepalive branch that writes nothing
Tick_silent(sent) ==
    /\ Running
    /\ Awake
    /\ last' = Ev("tick", -1, None, "Ok", NoItem, <<>>)
    /\ UNCHANGED <<worker, liveAtExit, subscriptions, operation_rx>>
    /\ UNCHANGED <<next_id, client, chans, held, endedIds, used, fixed,
                   sinceEnd>>

\* the keepalive sleep fires: a Ping with an empty payload is written
Tick(sent) ==
    /\ Running
    /\ Awake
    /\ IF sent
       THEN /\ last' = Ev("tick", -1, None, "Ok", NoItem, <<WsPing(<<>>)>>)
            /\ UNCHANGED <<worker, liveAtExit, subscriptions, operation_rx>>
       ELSE /\ last' = Ev("tick", -1, None, "Tungstenite", NoItem, <<>>)
            /\ Exit("Tungstenite", subscriptions)
    /\ UNCHANGED <<next_id, client, chans, held, endedIds, used, fixed,
                   sinceEnd>>

PingPayloads == {<<7>>}
\* the payloads of the server's Pings
PingPayloadsOf(sc) ==
    IF sc = "marks" THEN {<<>>, <<7>>, <<7, 9>>} ELSE PingPayloads

Next ==
    \/ \E operation \in OperationsOf(scenario) : Request(operation)
    \/ DropClient
    \/ \E c \in Watched : StreamNext(c)
    \/ \E c \in Watched : DropStream(c)
    \/ \E data \in InboundOf(scenario) : RecvBinary(data)
    \/ \E data \in PingPayloadsOf(scenario), sent \in BOOLEAN :
           RecvPing(data, sent)
    \/ RecvPong
    \/ RecvClose
    \/ RecvOther
    \/ RecvError
    \/ RecvNone
    \/ \E sent \in BOOLEAN : Operation(sent)
    \/ OperationNone
    \/ \E sent \in BOOLEAN : Tick(sent)

Spec == Init /\ [][Next]_vars
SpecLoad == InitLoad /\ [][Next]_vars

(***************************************************************************)
(* The decoders on their own: Header::try_from_data on a buffer, and the   *)
(* Deserialize that serde derives for Side on the string of a CSV field.   *)
(***************************************************************************)
Buy == "Side::Buy"
Sell == "Side::Sell"

\* #[derive(Deserialize)] enum Side { #[serde(rename = "true")] Buy,
\* #[serde(rename = "false")] Sell }: the variant is chosen by its renamed
\* name, any other string is an unknown variant
Side_deserialize(s) ==
    IF s = "true" THEN [ok |-> TRUE, side |-> Buy]
    ELSE IF s = "false" THEN [ok |-> TRUE, side |-> Sell]
    ELSE [ok |-> FALSE, side |-> "unknown variant"]

SideStrings == {"true", "false", "Buy", "Sell", "buy", "TRUE", ""}

\* the u32 counters of the buffers, as 16-bit halves (high first)
Counters == {<<0, 0>>, <<0, 1>>, <<258, 772>>, <<65535, 65535>>}
to_be_bytes(u) ==
    <<u[1] \div 256, u[1] % 256, u[2] \div 256, u[2] % 256>>
BufferIds == {0, 1, 255}
BufferPayloads == {<<>>, <<104>>, <<1, 2, 3, 4, 5, 6, 7>>}
\* payload ++ [marker, id, counter as 4 big-endian bytes]
Buffer(marker, id, counter, payload) ==
    payload \o <<marker, id>> \o to_be_bytes(counter)
Buffers ==
    {Buffer(m, i, u, p) : m \in ValidMarkers, i \in BufferIds,
                          u \in Counters, p \in BufferPayloads}
        \cup {ShortMessage, BadMarkerMessage, <<>>}

\* the tables allocate_id is examined on, by their sets of empty slots: every
\* slot but those holds the sender of a subscription of its own
AllocFree ==
    {{}, {0}, {5}, {255}, {3, 7}, {7, 200}, {0, 255}, {3, 7, 200},
     {254, 255}, Slots \ {0}, Slots \ {0, 1, 2}, Slots \ {7}, Slots}
Table(free) == [k \in Slots |-> IF k \in free THEN None ELSE k + 1]
\* the values of next_id it is examined with
AllocHints == {0, 1, 3, 5, 7, 8, 200, 254, 255}

Calls ==
    {[fn |-> "try_from_data", arg |-> b] : b \in Buffers}
        \cup {[fn |-> "Side", arg |-> s] : s \in SideStrings}
        \cup {[fn |-> "allocate_id", arg |-> <<free, nid>>] :
                  free \in AllocFree, nid \in AllocHints}

InitDecode ==
    /\ call \in Calls
    /\ ret = NoCall
    /\ IF call.fn = "allocate_id"
       THEN /\ subscriptions = Table(call.arg[1])
            /\ next_id = call.arg[2]
            /\ operation_rx = <<>>
            /\ client = TRUE
            /\ worker = "running"
            /\ chans = <<>>
            /\ last = Ev("new", -1, None, "Ok", NoItem, <<>>)
            /\ held = {}
            /\ endedIds = {}
            /\ sinceEnd = {}
            /\ liveAtExit = {}
            /\ used = NoUse
            /\ scenario = "decode"
            /\ target_endian = "little"
       ELSE InitClient("decode")

Decode ==
    /\ call.fn = "try_from_data"
    /\ ret = NoCall
    /\ ret' = [fn |-> call.fn, arg |-> try_from_data(call.arg)]
    /\ UNCHANGED <<subscriptions, next_id, operation_rx, client, worker,
                   chans, last, held, endedIds, sinceEnd, liveAtExit, used,
                   scenario, target_endian, call>>

DeserializeSide ==
    /\ call.fn = "Side"
    /\ ret = NoCall
    /\ ret' = [fn |-> call.fn, arg |-> Side_deserialize(call.arg)]
    /\ UNCHANGED <<subscriptions, next_id, operation_rx, client, worker,
                   chans, last, held, endedIds, sinceEnd, liveAtExit, used,
                   scenario, target_endian, call>>

\* self.allocate_id() on the worker's table and next_id
Allocate ==
    /\ call.fn = "allocate_id"
    /\ ret = NoCall
    /\ LET a == allocate_id(subscriptions, next_id) IN
       /\ ret' = [fn |-> call.fn, arg |-> [ok |-> a.ok, id |-> a.id]]
       /\ subscriptions' = a.subscriptions
       /\ next_id' = a.next_id
    /\ UNCHANGED <<operation_rx, client, worker, chans, last, held, endedIds,
                   sinceEnd, liveAtExit, used, scenario, target_endian, call>>

NextDecode == Decode \/ DeserializeSide \/ Allocate

SpecDecode == InitDecode /\ [][NextDecode]_vars

SpecMarks == InitMarks /\ [][Next]_vars
SpecHeight == InitHeight /\ [][Next]_vars
SpecProto == InitProto /\ [][Next]_vars

\* the callers keep polling the streams they hold
SpecLive ==
    /\ InitLive /\ [][Next]_vars
    /\ \A c \in 1 .. MaxWatched : WF_vars(StreamNext(c))

\* the load scenario with callers that keep polling the streams they hold
SpecLoadLive ==
    /\ InitLoad /\ [][Next]_vars
    /\ \A c \in 1 .. MaxWatched : WF_vars(StreamNext(c))

\* select! picks among the ready branches at random, so an operation that
\* stays ready, or the closure of the operation channel, is eventually taken
SpecDrain ==
    /\ InitLive /\ [][Next]_vars
    /\ WF_vars(\E sent \in BOOLEAN : Operation(sent))
    /\ WF_vars(OperationNone)

(***************************************************************************)
(* Properties.                                                             *)
(***************************************************************************)
Occupied == {k \in Slots : subscriptions[k] # None}
TableFull == \A k \in Slots : subscriptions[k] # None

\* no channel's sender sits in two slots
DistinctSenders ==
    Cardinality({subscriptions[k] : k \in Occupied}) = Cardinality(Occupied)

\* C1: allocate_id only ever returns an id whose slot is empty: in every
\* reachable state the id it would return is free, every send_request step
\* gets an id that is free and that no send_request has been given since the
\* last END frame was processed, and no two slots hold the same subscription.
C1_AllocateReturnsEmptySlot ==
    /\ [](Running =>
            LET a == allocate_id(subscriptions, next_id)
            IN  a.ok => subscriptions[a.id] = None)
    /\ []DistinctSenders
    /\ [][\A sent \in BOOLEAN :
            (Operation(sent) /\ last'.id # -1) =>
                /\ subscriptions[last'.id] = None
                /\ last'.id \notin sinceEnd]_vars

\* C1 witness: a request got an id other than the hint (the hinted slot was
\* occupied and the scan found a free one).
C1_Witness ==
    /\ last.ev = "send_request" /\ last.res = "Ok"
    /\ wrapping_add(last.id, 1) # next_id
    /\ subscriptions[last.id] = last.chan

\* C2: an id handed to a request whose frame was sent is not returned by any
\* later allocation unless an END frame for that id was processed in between.
C2_NoReuseBeforeEnd ==
    [][\A sent \in BOOLEAN :
        (Operation(sent) /\ last'.id # -1) => last'.id \notin held]_vars

\* C2 witness: after an END frame emptied an occupied slot, a later allocation
\* returned that id again.
C2_Witness ==
    /\ last.ev = "send_request" /\ last.res = "Ok"
    /\ last.id \in endedIds
    /\ subscriptions[last.id] = last.chan

\* C3: with all 256 slots occupied allocate_id fails with
\* MaxConcurrentRequestLimitReached and returns the table as it was.
C3_FullTableAllocationFails ==
    /\ [](TableFull =>
            LET a == allocate_id(subscriptions, next_id)
            IN  ~a.ok /\ a.subscriptions = subscriptions)
    /\ [][\A sent \in BOOLEAN :
            (Operation(sent) /\ TableFull) =>
                /\ last'.res = "MaxConcurrentRequestLimitReached"
                /\ last'.id = -1 /\ last'.wrote = <<>>]_vars

\* C3 witness: a request was taken from the channel while the table was full
\* and its allocation failed.
C3_Witness ==
    /\ last.ev = "send_request"
    /\ last.res = "MaxConcurrentRequestLimitReached"
    /\ worker = "done" /\ Cardinality(liveAtExit) >= NumSlots

\* C4 (as claimed): with the table full and no frame received, a further
\* request returns Err(MaxConcurrentRequestLimitReached) to its caller.
C4_CallerGetsLimitError ==
    (last.ev = "request" /\ TableFull /\ used.frames = 0)
        => last.res = "MaxConcurrentRequestLimitReached"

(***************************************************************************)
(* Frames and items, for the properties of routing.                        *)
(***************************************************************************)
ContinueFrames == {t \in MuxTriples : t[1] = CONTINUE}
ItemFrames == {t \in MuxTriples : t[1] \in {CONTINUE, ERROR}}
FrameOf(t) == Frame(t[1], t[2], t[3])

RECURSIVE OkData(_)
\* the payloads of the Ok items of a sequence of items, in order
OkData(items) ==
    IF items = <<>> THEN <<>>
    ELSE IF items[1].kind = "Ok"
    THEN <<items[1].data>> \o OkData(Tail(items))
    ELSE OkData(Tail(items))

RECURSIVE ContinuePayloads(_)
\* the payloads of the frames (marker, payload) marked CONTINUE and not
\* ERROR, in order
ContinuePayloads(frames) ==
    IF frames = <<>> THEN <<>>
    ELSE IF HasBit(frames[1][1], CONTINUE) /\ ~HasBit(frames[1][1], ERROR)
    THEN <<frames[1][2]>> \o ContinuePayloads(Tail(frames))
    ELSE ContinuePayloads(Tail(frames))

IsPrefix(a, b) == Len(a) <= Len(b) /\ a = SubSeq(b, 1, Len(a))

\* every channel but c is as it was
OtherChansUnchanged(c) ==
    \A d \in DOMAIN chans : d # c => chans'[d] = chans[d]

\* C5: handling a CONTINUE frame for an occupied slot k appends exactly one
\* item Ok(payload) to the channel of slot k if its receiver still exists and
\* queues nothing if the receiver is gone; every other channel, the whole
\* table and next_id are unchanged, and the loop continues.
C5_ContinuePushesOnce ==
    [][\A t \in ContinueFrames :
        (RecvBinary(FrameOf(t)) /\ subscriptions[t[2]] # None) =>
            LET c == subscriptions[t[2]] IN
            /\ chans'[c].queue =
                   IF chans[c].rx THEN Append(chans[c].queue, OkItem(t[3]))
                   ELSE chans[c].queue
            /\ chans'[c].got = chans[c].got
            /\ chans'[c].rx = chans[c].rx
            /\ OtherChansUnchanged(c)
            /\ subscriptions' = subscriptions
            /\ next_id' = next_id
            /\ worker' = "running"]_vars

\* C5 witness: a CONTINUE frame was pushed into the channel of an occupied
\* slot while another subscription was installed.
C5_Witness ==
    /\ last.ev = "binary" /\ last.marker = CONTINUE /\ last.res = "Ok"
    /\ last.chan # None
    /\ subscriptions[last.id] = last.chan
    /\ chans[last.chan].rx
    /\ chans[last.chan].queue # <<>>
    /\ chans[last.chan].queue[Len(chans[last.chan].queue)] = last.item
    /\ \E k \in MuxIds : k # last.id /\ subscriptions[k] # None

\* C5 (as claimed): a CONTINUE frame for an occupied slot always appends one
\* Ok(payload) item to the channel of that slot.
C5_ContinueAlwaysAppends ==
    [][\A t \in ContinueFrames :
        (RecvBinary(FrameOf(t)) /\ subscriptions[t[2]] # None) =>
            LET c == subscriptions[t[2]] IN
            /\ chans'[c].queue = Append(chans[c].queue, OkItem(t[3]))
            /\ OtherChansUnchanged(c)
            /\ subscriptions' = subscriptions
            /\ next_id' = next_id]_vars

\* C6: a frame whose marker has neither END nor START and whose id refers to
\* an empty slot makes the loop fail with UnknownResponseId and terminate; a
\* frame marked END or START for an empty slot is accepted, the loop goes on
\* and the table is as it was.
C6_UnknownIdTerminates ==
    [][\A t \in MuxTriples :
        (RecvBinary(FrameOf(t)) /\ subscriptions[t[2]] = None) =>
            IF HasBit(t[1], END) \/ HasBit(t[1], START)
            THEN /\ last'.res = "Ok"
                 /\ worker' = "running"
                 /\ subscriptions' = subscriptions
                 /\ chans' = chans
            ELSE /\ last'.res = "UnknownResponseId"
                 /\ worker' = "done"
                 /\ chans' = chans]_vars

\* C6 witness: a frame for an empty slot ended the loop with
\* UnknownResponseId.
C6_Witness ==
    /\ last.ev = "binary" /\ last.res = "UnknownResponseId"
    /\ last.marker \in {CONTINUE, ERROR}
    /\ worker = "done"

\* C6 (as claimed): every frame of a valid marker whose id refers to an empty
\* slot makes the loop fail with UnknownResponseId and terminate.
C6_AnyMarkerUnknownIdTerminates ==
    [][\A t \in MuxTriples :
        (RecvBinary(FrameOf(t)) /\ subscriptions[t[2]] = None) =>
            /\ last'.res = "UnknownResponseId"
            /\ worker' = "done"]_vars

\* C7: for every subscription, the Ok payloads its stream has yielded are a
\* prefix of the payloads of the CONTINUE frames handled for its slot while it
\* was installed, and, as long as the stream exists, the payloads yielded and
\* still queued are exactly those payloads, in order.
C7_ContinueOrderPreserved ==
    \A c \in DOMAIN chans :
        /\ IsPrefix(OkData(chans[c].got), ContinuePayloads(chans[c].seen))
        /\ chans[c].rx =>
               OkData(chans[c].got \o chans[c].queue)
                   = ContinuePayloads(chans[c].seen)

\* C7 witness: a stream has yielded two different payloads in the order of
\* their frames while frames for another subscription were handled.
C7_Witness ==
    \E c, d \in DOMAIN chans :
        /\ c # d
        /\ Len(chans[c].got) = 2
        /\ OkData(chans[c].got) = ContinuePayloads(chans[c].seen)
        /\ chans[c].got[1] # chans[c].got[2]
        /\ chans[d].seen # <<>>

\* C8: a stream whose slot got one ERROR frame with a UTF-8 payload s holds
\* exactly one item, Err(ErrorMsg(s)); an ERROR or END frame for slot i leaves
\* every other slot and every other channel as they were, and after the END
\* frame no sender of i's channel is left; a later CONTINUE frame for another
\* live slot is still appended to that slot's channel.
C8_ErrorIsolation ==
    /\ [](\A c \in DOMAIN chans :
            (/\ chans[c].rx
             /\ Len(chans[c].seen) = 1
             /\ chans[c].seen[1][1] = ERROR
             /\ from_utf8_ok(chans[c].seen[1][2]))
                => chans[c].got \o chans[c].queue
                       = <<ErrItem("ErrorMsg", chans[c].seen[1][2])>>)
    /\ [][\A t \in MuxTriples :
            (/\ t[1] \in {ERROR, END}
             /\ RecvBinary(FrameOf(t))
             /\ subscriptions[t[2]] # None) =>
                LET c == subscriptions[t[2]] IN
                /\ \A k \in MuxIds :
                       k # t[2] => subscriptions'[k] = subscriptions[k]
                /\ subscriptions' \in
                       {subscriptions, [subscriptions EXCEPT ![t[2]] = None]}
                /\ OtherChansUnchanged(c)
                /\ worker' = "running"
                /\ t[1] = END =>
                       ~HasSender(subscriptions', operation_rx', c)]_vars
    /\ [][\A t \in ContinueFrames :
            (/\ RecvBinary(FrameOf(t))
             /\ endedIds # {}
             /\ subscriptions[t[2]] # None
             /\ chans[subscriptions[t[2]]].rx) =>
                /\ chans'[subscriptions[t[2]]].queue =
                       Append(chans[subscriptions[t[2]]].queue, OkItem(t[3]))
                /\ subscriptions'[t[2]] = subscriptions[t[2]]]_vars

\* C8 witness: stream c yielded one Err(ErrorMsg(s)) and then end-of-stream
\* after ERROR and END frames for its slot, and a CONTINUE frame then reached
\* the channel of another subscription, which is still installed.
C8_Witness ==
    \E c \in DOMAIN chans :
        /\ chans[c].ended
        /\ chans[c].seen = << <<ERROR, <<104>> >> >>
        /\ chans[c].got = <<ErrItem("ErrorMsg", <<104>>)>>
        /\ last.ev = "binary" /\ last.marker = CONTINUE
        /\ last.chan # None /\ last.chan # c
        /\ subscriptions[last.id] = last.chan
        /\ chans[last.chan].queue = <<last.item>>
        /\ last.item.kind = "Ok"

\* C9: while the loop runs, the table changes only by an END frame emptying
\* the slot of its id or by send_request installing a sender in an empty
\* slot; an ERROR frame, a dropped stream and a failed push leave the table as
\* it was, and a failed push leaves the loop running.
C9_SlotFreedOnlyByEnd ==
    /\ [][(Running /\ worker' = "running" /\ subscriptions' # subscriptions) =>
            \/ /\ last'.ev = "binary"
               /\ HasBit(last'.marker, END)
               /\ subscriptions' = [subscriptions EXCEPT ![last'.id] = None]
            \/ /\ last'.ev = "send_request" /\ last'.res = "Ok"
               /\ subscriptions[last'.id] = None
               /\ subscriptions' =
                      [subscriptions EXCEPT ![last'.id] = last'.chan]]_vars
    /\ [][\A t \in ItemFrames :
            (/\ RecvBinary(FrameOf(t))
             /\ subscriptions[t[2]] # None
             /\ (t[1] = ERROR \/ ~chans[subscriptions[t[2]]].rx)) =>
                /\ subscriptions' = subscriptions
                /\ worker' = "running"
                /\ last'.res = "Ok"]_vars
    /\ [][\A c \in 1 .. MaxWatched :
            DropStream(c) =>
                subscriptions' = subscriptions /\ worker' = worker]_vars

\* C9 witness: a frame was handled for a slot whose stream had been dropped:
\* nothing was queued, the slot is still occupied and the loop runs.
C9_Witness ==
    /\ last.ev = "binary" /\ last.res = "Ok"
    /\ last.chan # None
    /\ ~chans[last.chan].rx
    /\ chans[last.chan].queue = <<>>
    /\ Running
    /\ subscriptions[last.id] = last.chan

\* C10: when the loop has terminated no sender is left for any subscription
\* that was live at that moment; from then on a stream only moves its queued
\* items to its caller, yields end-of-stream only with an empty queue, and
\* every such stream that is polled and not dropped eventually yields
\* end-of-stream.
C10_TerminationEndsStreams ==
    /\ [](worker = "done" =>
            \A c \in liveAtExit : ~HasSender(subscriptions, operation_rx, c))
    /\ [][worker = "done" =>
            \A c \in liveAtExit :
                /\ chans'[c].rx =>
                       chans'[c].got \o chans'[c].queue
                           = chans[c].got \o chans[c].queue
                /\ chans'[c].ended => chans'[c].queue = <<>>]_vars
    /\ \A c \in 1 .. MaxWatched :
           (worker = "done" /\ c \in liveAtExit /\ chans[c].rx)
               ~> (c \in DOMAIN chans /\ (chans[c].ended \/ ~chans[c].rx))

\* C10 witness: the loop terminated with a subscription live and an item
\* queued for it; its stream yielded the item and then end-of-stream.
C10_Witness ==
    /\ worker = "done"
    /\ \E c \in liveAtExit :
           /\ c \in DOMAIN chans
           /\ chans[c].ended
           /\ chans[c].got # <<>>

\* C11: once run() has returned, every request issued through the facade,
\* whatever its operation, returns BackendShutDown: no channel is created for
\* it, nothing is queued for the worker, and no operation is left queued.
C11_RequestAfterShutdownFails ==
    /\ [](worker = "done" => operation_rx = <<>>)
    /\ [][\A operation \in Operations :
            (Request(operation) /\ worker = "done") =>
                /\ last'.res = "BackendShutDown"
                /\ last'.chan = None
                /\ chans' = chans
                /\ operation_rx' = operation_rx]_vars

\* C11 witness: a request made after the worker terminated, an earlier
\* request having been accepted, got BackendShutDown.
C11_Witness ==
    /\ worker = "done"
    /\ last.ev = "request" /\ last.res = "BackendShutDown"
    /\ Len(chans) = MarksRequests

\* what a step that only writes to the socket leaves alone
WorkerStateUnchanged ==
    /\ subscriptions' = subscriptions
    /\ next_id' = next_id
    /\ chans' = chans
    /\ operation_rx' = operation_rx

\* C12: a Ping from the server is answered, in the step that handles it, by
\* exactly one Pong with the same payload, and the table, next_id, the
\* channels and the queued operations are as they were; if the socket refuses
\* the Pong, nothing is written and the loop ends with the socket's error.
C12_PingAnsweredByPong ==
    [][\A data \in PingPayloadsOf(scenario), sent \in BOOLEAN :
        RecvPing(data, sent) =>
            IF sent
            THEN /\ last'.wrote = <<WsPong(data)>>
                 /\ last'.wrote[1].type = "Pong"
                 /\ last'.wrote[1].data = data
                 /\ last'.res = "Ok"
                 /\ worker' = "running"
                 /\ WorkerStateUnchanged
            ELSE /\ last'.wrote = <<>>
                 /\ last'.res = "Tungstenite"
                 /\ worker' = "done"
                 /\ next_id' = next_id
                 /\ chans' = chans]_vars

\* C12 witness: a Ping with a payload was answered by a Pong with that
\* payload while an operation was waiting in the channel.
C12_Witness ==
    /\ last.ev = "ping" /\ last.res = "Ok"
    /\ last.wrote = <<WsPong(<<7, 9>>)>>
    /\ operation_rx # <<>>
    /\ Running

\* C12 (as claimed): every Ping received is answered by one Pong with the
\* same payload, and the table and next_id are unchanged.
C12_EveryPingAnswered ==
    [][\A data \in PingPayloadsOf(scenario), sent \in BOOLEAN :
        RecvPing(data, sent) =>
            /\ last'.wrote = <<WsPong(data)>>
            /\ subscriptions' = subscriptions
            /\ next_id' = next_id]_vars

\* C13: when the keepalive sleep completes before any message or operation,
\* the worker writes exactly one Ping with an empty payload, changes nothing
\* else and keeps running, so that the next quiet interval gives one more
\* Ping; if the socket refuses the Ping, nothing is written and the loop ends
\* with the socket's error.
C13_KeepalivePing ==
    /\ []((last.ev = "tick" /\ last.res = "Ok" /\ Awake) =>
            (Running /\ last.wrote = <<WsPing(<<>>)>>))
    /\ [][\A sent \in BOOLEAN :
            Tick(sent) =>
                IF sent
                THEN /\ last'.wrote = <<WsPing(<<>>)>>
                     /\ last'.res = "Ok"
                     /\ worker' = "running"
                     /\ WorkerStateUnchanged
                ELSE /\ last'.wrote = <<>>
                     /\ last'.res = "Tungstenite"
                     /\ worker' = "done"
                     /\ next_id' = next_id
                     /\ chans' = chans]_vars

\* C13 witness: a keepalive Ping was written while a subscription was
\* installed, and the loop runs on.
C13_Witness ==
    /\ last.ev = "tick" /\ last.res = "Ok"
    /\ last.wrote = <<WsPing(<<>>)>>
    /\ Running
    /\ \E k \in MarksIds : subscriptions[k] # None

\* C13 (as claimed): every keepalive tick writes one empty Ping and the loop
\* continues with the table unchanged.
C13_EveryTickPings ==
    [][\A sent \in BOOLEAN :
        Tick(sent) =>
            /\ last'.wrote = <<WsPing(<<>>)>>
            /\ worker' = "running"
            /\ subscriptions' = subscriptions]_vars

Reverse(s) == [i \in 1 .. Len(s) |-> s[Len(s) + 1 - i]]
\* the number whose most significant byte comes first, as 16-bit parts
MostSignificantFirst(b) ==
    <<b[1] * 256 + b[2], b[3] * 256 + b[4],
      b[5] * 256 + b[6], b[7] * 256 + b[8]>>
\* 8 bytes read in the order of the target
NativeValue(b) ==
    IF target_endian = "little" THEN MostSignificantFirst(Reverse(b))
    ELSE MostSignificantFirst(b)

\* the first thing the stream of channel c had to yield when get_height
\* returned: the first item queued for it, or NoItem at end-of-stream
FirstOf(c) == IF chans[c].got = <<>> THEN NoItem ELSE chans[c].got[1]

\* C14: get_height returns Ok(v) exactly when the first item of its stream is
\* an Ok payload of 8 bytes, v being those bytes in the target's order; it
\* returns an error at end-of-stream without an item, on an error item and on
\* a payload of another length; it reads one item at most and then drops the
\* stream.
C14_GetHeightReadsOneItem ==
    /\ \A c \in DOMAIN chans :
           chans[c].one_shot =>
               /\ Len(chans[c].got) <= 1
               /\ (chans[c].got # <<>> \/ chans[c].ended) => ~chans[c].rx
    /\ last.ev = "get_height" =>
           LET first == FirstOf(last.chan) IN
           /\ last.item = first
           /\ (last.res = "Ok") <=>
                  (first.kind = "Ok" /\ Len(first.data) = 8)
           /\ last.res = "Ok" => last.value = NativeValue(first.data)
           /\ first.kind = "None" =>
                  /\ chans[last.chan].ended
                  /\ last.res = "Custom(empty response from websocket)"
           /\ first.kind \notin {"Ok", "None"} => last.res = "Err(io::Error)"
           /\ (first.kind = "Ok" /\ Len(first.data) # 8) =>
                  last.res = "Custom(failed to collect bytes for height bytes)"

\* C14 witness: on a big-endian target get_height returned the 8 bytes of the
\* first frame as a number, a second frame for its slot having arrived too.
C14_Witness ==
    /\ last.ev = "get_height" /\ last.res = "Ok"
    /\ target_endian = "big"
    /\ last.value = <<10753, 515, 1029, 1543>>
    /\ Len(chans[last.chan].seen) = 2
    /\ chans[last.chan].got = <<OkItem(HeightBytes)>>

\* C15 (as claimed): the strings "true" and "Buy" both decode to Side::Buy
\* and the strings "false" and "Sell" both decode to Side::Sell.
C15_SideAcceptsBothEncodings ==
    ret.fn = "Side" =>
        /\ call.arg \in {"true", "Buy"} =>
               (ret.arg.ok /\ ret.arg.side = Buy)
        /\ call.arg \in {"false", "Sell"} =>
               (ret.arg.ok /\ ret.arg.side = Sell)

\* C20: for every marker made of defined bits, every id, every counter and
\* every payload (the empty one included), try_from_data on
\* payload ++ [marker, id, counter as 4 big-endian bytes] succeeds and returns
\* exactly that marker, id, counter and payload.
C20_HeaderRoundTrip ==
    \A m \in ValidMarkers, i \in BufferIds, u \in Counters,
       p \in BufferPayloads :
        (ret.fn = "try_from_data" /\ call.arg = Buffer(m, i, u, p)) =>
            ret.arg = [ok |-> TRUE, marker |-> m, id |-> i, counter |-> u,
                       data |-> p]

\* C20 witness: a buffer of exactly 6 bytes, with every flag set and the
\* largest counter, was decoded to its marker, id and counter and an empty
\* payload.
C20_Witness ==
    /\ ret.fn = "try_from_data"
    /\ call.arg = <<MsgMarkerAll, 255, 255, 255, 255, 255>>
    /\ ret.arg = [ok |-> TRUE, marker |-> MsgMarkerAll, id |-> 255,
                  counter |-> <<65535, 65535>>, data |-> <<>>]

\* C16: once the Client has been dropped the loop eventually ends.  It ends
\* through the closure of the operation channel only with every queued
\* operation dequeued, and then with Ok; any other end of the loop with the
\* Client dropped is the end of the inbound stream (Ok, operations possibly
\* still queued) or a failure of the loop.
C16_ExitAfterClientDropped ==
    /\ (~client /\ Running) ~> (worker = "done")
    /\ [][OperationNone =>
            /\ ~client /\ operation_rx = <<>>
            /\ last'.res = "Ok"
            /\ worker' = "done"]_vars
    /\ [][(~client /\ Running /\ worker' = "done") =>
            \/ last'.ev = "op_none" /\ operation_rx = <<>>
            \/ last'.ev = "ws_none" /\ last'.res = "Ok"
            \/ last'.res # "Ok"]_vars
    /\ [][(~client /\ Running /\ operation_rx # <<>> /\ worker' = "running")
            => (~client' /\ Len(operation_rx') <= Len(operation_rx))]_vars

\* C16 witness: the Client was dropped, the operations it had queued were
\* handled, and the loop then ended through the closed channel.
C16_Witness ==
    /\ worker = "done" /\ ~client
    /\ last.ev = "op_none" /\ last.res = "Ok"
    /\ Cardinality(liveAtExit) = LiveRequests
    /\ Len(chans) = LiveRequests

\* C16 (as claimed): with the Client dropped and no socket error, the loop
\* ends with Ok only after every queued operation has been dequeued.
C16_CleanExitOnlyAfterDrain ==
    [][(~client /\ Running /\ worker' = "done" /\ last'.res = "Ok")
        => operation_rx = <<>>]_vars

\* the operation send_request would be called with next
NextOperation == Head(operation_rx)

\* C17: whenever send_request is about to run, the table it has at the moment
\* it writes the frame carrying id already holds the caller's sender in slot
\* id; every id whose frame was written and that no END frame has ended is
\* occupied, and a frame for such an id never meets an empty slot.
C17_InstalledBeforeWrite ==
    /\ []((Running /\ operation_rx # <<>>) =>
            \A sent \in BOOLEAN :
                LET r == send_request(subscriptions, next_id,
                                      NextOperation.operation,
                                      NextOperation.sender, sent)
                IN  r.id # -1 =>
                        /\ r.at_write[r.id] = NextOperation.sender
                        /\ sent => r.wrote =
                               <<WsBinary(r.id, NextOperation.operation)>>)
    /\ [](Running => \A k \in held : subscriptions[k] # None)
    /\ [][\A t \in LiveTriples :
            (RecvBinary(FrameOf(t)) /\ t[2] \in held) =>
                (last'.res = "Ok" /\ worker' = "running")]_vars

\* C17 witness: a data frame answering a request whose frame had been
\* written was pushed into that request's channel.
C17_Witness ==
    /\ last.ev = "binary" /\ last.marker = CONTINUE /\ last.res = "Ok"
    /\ last.id \in held
    /\ last.chan # None
    /\ chans[last.chan].queue # <<>>
    /\ subscriptions[last.id] = last.chan

\* C18: if the socket refuses the request frame, send_request returns the
\* socket's error with the slot it had installed emptied again and every
\* other slot as it was, nothing written; the loop ends with that error.
C18_FailedWriteReleasesSlot ==
    /\ []((Running /\ operation_rx # <<>>) =>
            LET r == send_request(subscriptions, next_id,
                                  NextOperation.operation,
                                  NextOperation.sender, FALSE)
            IN  r.id # -1 =>
                    /\ r.res = "Tungstenite"
                    /\ r.wrote = <<>>
                    /\ r.at_write[r.id] = NextOperation.sender
                    /\ r.subscriptions[r.id] = None
                    /\ \A k \in Slots :
                           k # r.id => r.subscriptions[k] = subscriptions[k])
    /\ [][(Operation(FALSE) /\ ~TableFull) =>
            /\ last'.res = "Tungstenite"
            /\ last'.wrote = <<>>
            /\ worker' = "done"]_vars

\* C18 witness: the write of a second request's frame failed while the first
\* request's subscription was installed.
C18_Witness ==
    /\ last.ev = "send_request" /\ last.res = "Tungstenite"
    /\ last.id = 1
    /\ worker = "done"
    /\ Cardinality(liveAtExit) = 2

\* the item a step appended to the queue of channel c, NoItem if none
Pushed(c) ==
    IF Len(chans'[c].queue) = Len(chans[c].queue) + 1
          /\ SubSeq(chans'[c].queue, 1, Len(chans[c].queue)) = chans[c].queue
    THEN chans'[c].queue[Len(chans'[c].queue)]
    ELSE NoItem

\* C19: for every marker made of defined bits, on a slot whose stream exists:
\* with END the slot is emptied and nothing is pushed (START|END included);
\* with START and no END nothing changes; with ERROR and neither END nor
\* START one error item is pushed (ErrorMsg of the payload if it is UTF-8);
\* with CONTINUE and none of the other three one Ok(payload) item is pushed;
\* no other marker pushes data.
C19_MarkerPrecedence ==
    [][\A t \in MarksTriples :
        (/\ last'.ev = "binary" /\ last'.marker = t[1] /\ last'.id = t[2]
         /\ subscriptions[t[2]] # None
         /\ chans[subscriptions[t[2]]].rx
         /\ RecvBinary(FrameOf(t))) =>
            LET c == subscriptions[t[2]]
                m == t[1]
            IN
            /\ worker' = "running"
            /\ OtherChansUnchanged(c)
            /\ IF HasBit(m, END)
               THEN /\ subscriptions' = [subscriptions EXCEPT ![t[2]] = None]
                    /\ chans' = chans
               ELSE IF HasBit(m, START)
               THEN /\ subscriptions' = subscriptions
                    /\ chans' = chans
               ELSE IF HasBit(m, ERROR)
               THEN /\ subscriptions' = subscriptions
                    /\ Pushed(c).kind \notin {"Ok", "None"}
                    /\ from_utf8_ok(t[3]) =>
                           Pushed(c) = ErrItem("ErrorMsg", t[3])
               ELSE IF HasBit(m, CONTINUE)
               THEN /\ subscriptions' = subscriptions
                    /\ Pushed(c) = OkItem(t[3])
               ELSE /\ subscriptions' = subscriptions
                    /\ Pushed(c) = ErrItem("UnexpectedMessageFormat", <<>>)]_vars

\* C19 witness: a frame marked START|END emptied an occupied slot and pushed
\* nothing.
C19_Witness ==
    /\ last.ev = "binary" /\ last.marker = START + END /\ last.res = "Ok"
    /\ last.id \in endedIds
    /\ subscriptions[last.id] = None
    /\ Running
    /\ \E c \in DOMAIN chans : chans[c].rx /\ chans[c].queue = <<>>
                               /\ chans[c].got = <<>>

CalledTable == Table(call.arg[1])
CalledHint == call.arg[2]

\* C22: allocate_id returns next_id when the slot at next_id is empty;
\* otherwise it returns the lowest index of an empty slot; it fails exactly
\* when no slot is empty; the table is as it was.
C22_AllocateHintThenLowest ==
    ret.fn = "allocate_id" =>
        /\ subscriptions = CalledTable
        /\ ret.arg.ok <=> (\E k \in Slots : CalledTable[k] = None)
        /\ ~ret.arg.ok => ret.arg.id = -1
        /\ ret.arg.ok =>
               /\ ret.arg.id \in Slots
               /\ CalledTable[ret.arg.id] = None
               /\ CalledTable[CalledHint] = None => ret.arg.id = CalledHint
               /\ CalledTable[CalledHint] # None =>
                      \A j \in 0 .. (ret.arg.id - 1) : CalledTable[j] # None

\* C22 witness: with the slot at next_id occupied and the slots 3, 7 and 200
\* empty, allocate_id returned 3.
C22_Witness ==
    /\ ret.fn = "allocate_id"
    /\ call.arg = <<{3, 7, 200}, 8>>
    /\ ret.arg = [ok |-> TRUE, id |-> 3]

\* C23: a call of allocate_id that succeeds sets next_id to
\* (next_id + 1) mod 256, whether or not the request frame is then written; a
\* call that fails with MaxConcurrentRequestLimitReached leaves next_id as it
\* was; nothing else changes next_id.
C23_NextIdAdvancesOnSuccess ==
    /\ [](Running =>
            LET a == allocate_id(subscriptions, next_id) IN
            /\ a.ok => a.next_id = (next_id + 1) % 256
            /\ ~a.ok => a.next_id = next_id)
    /\ [][\A sent \in BOOLEAN :
            Operation(sent) =>
                /\ last'.res = "MaxConcurrentRequestLimitReached" <=> TableFull
                /\ next_id' = IF TableFull THEN next_id
                              ELSE (next_id + 1) % 256]_vars
    /\ [][next_id' # next_id => last'.ev = "send_request"]_vars

\* C23 witness: next_id went through 255 back to 0, a slot was freed and
\* taken again, and the allocation that then failed on the full table left
\* next_id at 1.
C23_Witness ==
    /\ last.ev = "send_request"
    /\ last.res = "MaxConcurrentRequestLimitReached"
    /\ next_id = 1
    /\ used.requests = NumSlots + LoadExtra
    /\ Cardinality(liveAtExit) >= NumSlots

\* C23 (as claimed): every call of allocate_id, failed ones included, sets
\* next_id to (next_id + 1) mod 256.
C23_EveryCallAdvances ==
    [][\A sent \in BOOLEAN :
        Operation(sent) => next_id' = (next_id + 1) % 256]_vars

\* C24: when send_request returns an error (MaxConcurrentRequestLimitReached
\* on a full table, the socket's error on a failed write) the loop ends with
\* that error in the same step; no sender is left, in the table or in the
\* operation channel, for any subscription, the up to 256 installed ones and
\* the failing request's included; nothing is pushed; and every such stream
\* that is polled and not dropped eventually yields end-of-stream.
C24_SendRequestErrorPropagates ==
    /\ [][\A sent \in BOOLEAN :
            (Operation(sent) /\ last'.res # "Ok") =>
                /\ last'.res = IF TableFull
                               THEN "MaxConcurrentRequestLimitReached"
                               ELSE "Tungstenite"
                /\ worker' = "done"
                /\ liveAtExit' = Senders(subscriptions, operation_rx)
                /\ Senders(subscriptions', operation_rx') = {}
                /\ chans' = chans]_vars
    /\ [][\A sent \in BOOLEAN :
            (Operation(sent) /\ (TableFull \/ ~sent)) => last'.res # "Ok"]_vars
    /\ \A c \in 1 .. MaxWatched :
           (/\ worker = "done" /\ last.ev = "send_request"
            /\ c \in liveAtExit /\ chans[c].rx)
               ~> (c \in DOMAIN chans /\ (chans[c].ended \/ ~chans[c].rx))

\* C24 witness: with 256 subscriptions installed a further request failed
\* with MaxConcurrentRequestLimitReached; the loop has ended, all 257 senders
\* are gone, and the first stream, still held, has nothing left to wait for.
C24_Witness ==
    /\ last.ev = "send_request"
    /\ last.res = "MaxConcurrentRequestLimitReached"
    /\ worker = "done"
    /\ Cardinality(liveAtExit) = NumSlots + 1
    /\ Senders(subscriptions, operation_rx) = {}
    /\ chans[1].rx /\ ~chans[1].ended

\* C25: a frame whose marker has END or START set and whose id refers to an
\* empty slot is accepted: handle_msg returns Ok, the loop keeps running,
\* the table, next_id and the queued operations are as they were and nothing
\* is pushed into any channel.
C25_EndStartOnEmptySlotAccepted ==
    [][\A t \in MarksTriples :
        (/\ last'.ev = "binary" /\ last'.marker = t[1] /\ last'.id = t[2]
         /\ HasBit(t[1], END) \/ HasBit(t[1], START)
         /\ subscriptions[t[2]] = None
         /\ RecvBinary(FrameOf(t))) =>
            /\ last'.res = "Ok"
            /\ last'.item = NoItem /\ last'.chan = None
            /\ worker' = "running"
            /\ subscriptions' = subscriptions
            /\ next_id' = next_id
            /\ operation_rx' = operation_rx
            /\ chans' = chans]_vars

\* C25 witness: an END frame for the empty slot 1 was accepted while slot 0
\* held a subscription: the loop runs, slot 0 is still held, slot 1 is still
\* empty and nothing was queued.
C25_Witness ==
    /\ last.ev = "binary" /\ last.marker = END /\ last.id = 1
    /\ last.res = "Ok"
    /\ Running
    /\ subscriptions[0] = 1 /\ subscriptions[1] = None
    /\ endedIds = {}
    /\ chans[1].rx /\ chans[1].queue = <<>>

\* the frames whose marker is 0x00 or 0x40, and those whose marker has ERROR
\* (and neither END nor START) with a payload that is not UTF-8
ProtocolErrorFrames ==
    {t \in ProtoTriples :
        \/ t[1] \in {0, SUBSCRIPTION}
        \/ HasBit(t[1], ERROR) /\ t[3] \in {<<255>>, <<195>>}}

\* C26: such a frame for an occupied slot appends one
\* Err(UnexpectedMessageFormat) item to the channel of that slot if its
\* receiver still exists and queues nothing if the receiver is gone; handle_msg
\* returns Ok, the loop keeps running, the table (the slot included) and
\* next_id are as they were, and so is every other channel.
C26_ProtocolErrorIsAnItem ==
    [][\A t \in ProtocolErrorFrames :
        (/\ last'.ev = "binary" /\ last'.marker = t[1] /\ last'.id = t[2]
         /\ subscriptions[t[2]] # None
         /\ RecvBinary(FrameOf(t))) =>
            LET c == subscriptions[t[2]] IN
            /\ last'.res = "Ok"
            /\ worker' = "running"
            /\ subscriptions' = subscriptions
            /\ next_id' = next_id
            /\ OtherChansUnchanged(c)
            /\ chans'[c].queue =
                   IF chans[c].rx
                   THEN Append(chans[c].queue,
                               ErrItem("UnexpectedMessageFormat", <<>>))
                   ELSE chans[c].queue
            /\ chans'[c].got = chans[c].got
            /\ chans'[c].rx = chans[c].rx]_vars

\* C26 witness: an ERROR frame whose payload is not UTF-8 put one
\* Err(UnexpectedMessageFormat) item into the channel of slot 0; the loop
\* went on and a CONTINUE frame then reached the channel of slot 1; both
\* slots are still occupied.
C26_Witness ==
    /\ last.ev = "binary" /\ last.marker = CONTINUE /\ last.id = 1
    /\ Running
    /\ subscriptions[0] = 1 /\ subscriptions[1] = 2
    /\ chans[1].seen = << <<ERROR, <<255>> >> >>
    /\ chans[1].queue = <<ErrItem("UnexpectedMessageFormat", <<>>)>>
    /\ chans[2].queue = <<OkItem(<<104>>)>>

\* C26 (as claimed): such a frame for an occupied slot always produces an
\* Err(UnexpectedMessageFormat) item in the channel of that slot.
C26_ProtocolErrorAlwaysQueued ==
    [][\A t \in ProtocolErrorFrames :
        (/\ last'.ev = "binary" /\ last'.marker = t[1] /\ last'.id = t[2]
         /\ subscriptions[t[2]] # None
         /\ RecvBinary(FrameOf(t))) =>
            LET c == subscriptions[t[2]] IN
            /\ chans'[c].queue =
                   Append(chans[c].queue,
                          ErrItem("UnexpectedMessageFormat", <<>>))
            /\ OtherChansUnchanged(c)
            /\ subscriptions' = subscriptions
            /\ worker' = "running"]_vars

\* the positions in the operation channel of the requests that the step
\* ending the loop leaves undequeued (a failing send_request has dequeued the
\* first)
Undequeued ==
    {i \in DOMAIN operation_rx : last'.ev = "send_request" => i > 1}

\* a stream for which nothing was ever queued
Untouched(c) ==
    chans[c].queue = <<>> /\ chans[c].got = <<>> /\ chans[c].seen = <<>>

\* C27: a request enters the operation channel only in a call of raw_request
\* that returns Ok(stream); a request frame is written only for the request
\* the loop has just dequeued; when the loop ends, each request still in the
\* channel has had no frame written and nothing queued for its stream, and
\* its sender is dropped; after the loop has ended nothing is written and
\* nothing is queued, so such a stream, when polled, yields end-of-stream,
\* with no item before it, and it does so eventually if it is polled and not
\* dropped.
C27_UndequeuedRequestEndsEmpty ==
    /\ [][Len(operation_rx') > Len(operation_rx) =>
            /\ Running
            /\ last'.ev = "request" /\ last'.res = "Ok"
            /\ last'.chan = Len(chans')
            /\ operation_rx' = Append(operation_rx,
                   [operation |-> operation_rx'[Len(operation_rx')].operation,
                    sender |-> last'.chan])
            /\ chans'[last'.chan].rx]_vars
    /\ [][last'.wrote # <<>> =>
            /\ Running
            /\ \A i \in DOMAIN last'.wrote :
                   last'.wrote[i].type = "Binary" =>
                       /\ last'.ev = "send_request"
                       /\ operation_rx # <<>>
                       /\ last'.chan = Head(operation_rx).sender]_vars
    /\ [][(Running /\ worker' = "done") =>
            /\ \A i \in DOMAIN last'.wrote : last'.wrote[i].type # "Binary"
            /\ \A i \in Undequeued :
                   LET c == operation_rx[i].sender IN
                   /\ Untouched(c)
                   /\ chans'[c] = chans[c]
                   /\ c \in liveAtExit'
                   /\ ~HasSender(subscriptions', operation_rx', c)]_vars
    /\ [][worker = "done" =>
            /\ last'.wrote = <<>>
            /\ \A c \in DOMAIN chans :
                   Untouched(c) =>
                       /\ chans'[c].queue = <<>> /\ chans'[c].got = <<>>
                       /\ chans'[c].seen = <<>>]_vars
    /\ [][\A c \in 1 .. MaxWatched :
            (worker = "done" /\ c \in liveAtExit /\ StreamNext(c)
                /\ Untouched(c)) =>
                    /\ last'.res = "None" /\ last'.item = NoItem
                    /\ chans'[c].ended]_vars
    /\ \A c \in 1 .. MaxWatched :
           (worker = "done" /\ c \in liveAtExit /\ chans[c].rx
                /\ Untouched(c))
               ~> (/\ c \in DOMAIN chans
                   /\ chans[c].got = <<>>
                   /\ chans[c].ended \/ ~chans[c].rx)

\* C27 witness: the loop ended after one allocation, with the second request
\* still in the operation channel; the second caller had its stream, and the
\* stream has yielded end-of-stream and no item.
C27_Witness ==
    /\ worker = "done"
    /\ next_id = 1
    /\ liveAtExit = {1, 2}
    /\ last.ev = "next" /\ last.chan = 2 /\ last.res = "None"
    /\ chans[2].ended /\ chans[2].rx
    /\ chans[2].got = <<>> /\ chans[2].seen = <<>>

====
